---- MODULE Spec2Model ----
(***************************************************************************)
(* Timeline composition of graphycs: the Remotion composition              *)
(* (GraphycsComposition, in its two builds), the duration resolver         *)
(* (calculateMetadata of the Remotion root) and the preview duration of    *)
(* the demo page; the server mutations generateSegments,                   *)
(* generateBrollClips and structure.generate, one step per await; and the  *)
(* demo page with its requests in flight.                                  *)
(*                                                                         *)
(* Times in seconds are JavaScript numbers in the source.  Here a time is  *)
(* an integer number of ticks, TicksPerFrame ticks to a frame, so that     *)
(* x * fps is ticks / TicksPerFrame and Math.round / Math.ceil are real    *)
(* roundings.  An optional value (undefined / null) is the empty tuple     *)
(* <<>>, a present value v is <<v>>.                                       *)
(***************************************************************************)
EXTENDS Integers, Sequences, FiniteSets, TLC

VARIABLES build, storyboard, segments, audioSeconds, plan, total, preview,
          brollUrls, brollClips, moduleConcepts, gen, video, structure, ui

vars == <<build, storyboard, segments, audioSeconds, plan, total, preview,
          brollUrls, brollClips, moduleConcepts, gen, video, structure, ui>>

----------------------------------------------------------------------------
(* Bounds *)

TicksPerFrame == 4
MaxOverview == 3
MaxModules == 3
MaxSegs == 8
MaxFree == 2
MaxClips == 5
MaxSentences == 4
MaxTasks == 3
MaxAnswer == 4
MaxStories == 2

(* Program constants *)

fps == 30
HANDLE == 12
handle == 12
introSeconds == 2
bufferFrames == 30
conceptCount == 5
maxConcepts == 10
maxAttempts == 60

----------------------------------------------------------------------------
(* Numeric helpers *)

RoundDown(t) == t \div TicksPerFrame

\* Math.round(x * fps): nearest frame, halves towards +infinity
Round(t) == (2 * t + TicksPerFrame) \div (2 * TicksPerFrame)

\* Math.ceil(x * fps)
Ceil(t) == (t + TicksPerFrame - 1) \div TicksPerFrame

Max(a, b) == IF a >= b THEN a ELSE b

Min(a, b) == IF a <= b THEN a ELSE b

RECURSIVE SumTo(_, _)
\* Array.prototype.reduce((acc, v) => acc + v, 0) over the first n entries
SumTo(s, n) == IF n = 0 THEN 0 ELSE SumTo(s, n - 1) + s[n]

----------------------------------------------------------------------------
(* generateSegments: cumulative start times with a 300 ms pause *)

paddingNone == 0 * fps

\* const padding = 0.3
padding == (3 * fps * TicksPerFrame) \div 10

segmentStart(durs, i) == SumTo([j \in 1..Len(durs) |-> durs[j] + padding], i - 1)

generateSegments(durs) ==
  [segments |-> [i \in 1..Len(durs) |->
                   [start |-> segmentStart(durs, i), duration |-> durs[i]]],
   totalDuration |-> segmentStart(durs, Len(durs) + 1) - padding]

----------------------------------------------------------------------------
(* Duration resolver: calculateMetadata of the Remotion root *)

SegmentsEndLast(segs, n) ==
  IF n = 0 THEN 0 ELSE segs[n].start + segs[n].duration

RECURSIVE SegmentsEnd(_, _)
\* props.segments.reduce((acc, seg) => Math.max(acc, seg.start + seg.duration), 0)
SegmentsEnd(segs, n) ==
  IF n = 0 THEN 0
  ELSE Max(SegmentsEnd(segs, n - 1), segs[n].start + segs[n].duration)

baseDurations(m) ==
  <<fps * 4, fps * 4>> \o [i \in 1..m |-> (fps * 9) \div 2] \o <<fps * 5>>

metadataRuntimeDurations(bd) ==
  [idx \in 1..Len(bd) |-> IF idx = Len(bd) THEN bd[idx] ELSE bd[idx] - handle]

hasSegmentsDefined(segs) == segs # <<>>

\* props.segments && props.segments.length > 0, segments?.length
hasSegments(segs) == segs # <<>> /\ Len(segs[1]) > 0

calculateMetadata(sb, segs) ==
  IF hasSegments(segs)
  THEN Ceil(SegmentsEnd(segs[1], Len(segs[1]))) + bufferFrames
  ELSE LET rd == metadataRuntimeDurations(baseDurations(sb.modules))
       IN  SumTo(rd, Len(rd))

----------------------------------------------------------------------------
(* Preview duration of the demo page *)

fallbackFrames(sb) == (IF sb.modules = 0 THEN 3 ELSE sb.modules) * 4 * fps

durationInFrames(sb, secs) ==
  IF secs # <<>> /\ secs[1] # 0 THEN Ceil(secs[1]) ELSE fallbackFrames(sb)

----------------------------------------------------------------------------
(* Scenes *)

Scene(kind, from, dur, idx, seg) ==
  [kind |-> kind, startFrame |-> from, durationFrames |-> dur,
   moduleIdx |-> idx, seg |-> seg]

(* Build "scenePlan": the composition that lays out a scenePlan array *)

scenePlan(sb) ==
  <<[id |-> "intro", index |-> <<>>], [id |-> "overview", index |-> <<>>]>>
  \o [i \in 1..sb.modules |-> [id |-> "module", index |-> <<i - 1>>]]
  \o <<[id |-> "summary", index |-> <<>>]>>

sceneDurations(sp) ==
  [k \in 1..Len(sp) |->
     IF sp[k].id = "intro" THEN fps * 4
     ELSE IF sp[k].id = "module" THEN (fps * 9) \div 2
     ELSE IF sp[k].id = "summary" THEN fps * 5
     ELSE fps * 4]

runtimeDurationsNoHandle(sd) == sd

runtimeDurations(sd) ==
  [k \in 1..Len(sd) |-> IF k = Len(sd) THEN sd[k] ELSE sd[k] - HANDLE]

sceneOffsets(rd) == [k \in 1..Len(rd) |-> SumTo(rd, k - 1)]

scenePlanSegments(sb, segs) ==
  LET sp == scenePlan(sb)
  IN  [k \in 1..Len(segs) |->
         LET sceneIndex == Min(k - 1, Len(sp) - 1)
             descriptor == sp[sceneIndex + 1]
         IN  Scene(descriptor.id, Round(segs[k].start), Round(segs[k].duration),
                   descriptor.index, <<k - 1>>)]

scenePlanFallback(sb) ==
  LET sp == scenePlan(sb)
      sd == sceneDurations(sp)
      so == sceneOffsets(runtimeDurations(sd))
  IN  [k \in 1..Len(sp) |-> Scene(sp[k].id, so[k], sd[k], sp[k].index, <<>>)]

(* Build "slides": the composition with IntroScene / ModuleScene / SummaryScene *)

moduleIdxUnclamped(sb, i) ==
  IF i < sb.overview THEN 0 ELSE i - sb.overview

moduleIdx(sb, i) ==
  IF i < sb.overview THEN 0 ELSE Min(i - sb.overview, sb.modules - 1)

segmentKind(sb, i) ==
  IF i < sb.overview THEN "overview"
  ELSE IF i < sb.overview + sb.modules THEN "module"
  ELSE "summary"

slidesSegments(sb, segs) ==
  <<Scene("intro", 0, introSeconds * fps, <<>>, <<>>)>>
  \o [k \in 1..Len(segs) |->
        Scene(segmentKind(sb, k - 1), Round(segs[k].start), Round(segs[k].duration),
              <<moduleIdx(sb, k - 1)>>, <<k - 1>>)]

perScene == 4 * fps

effectiveDuration == perScene - HANDLE

slidesFallback(sb) ==
  <<Scene("intro", 0, perScene, <<>>, <<>>)>>
  \o [k \in 1..sb.modules |->
        Scene("module", k * effectiveDuration, perScene, <<k - 1>>, <<>>)]
  \o <<Scene("summary", (sb.modules + 1) * effectiveDuration, perScene, <<>>, <<>>)>>

GraphycsComposition(b, sb, segs) ==
  IF b = "scenePlan"
  THEN IF hasSegments(segs) THEN scenePlanSegments(sb, segs[1]) ELSE scenePlanFallback(sb)
  ELSE IF hasSegments(segs) THEN slidesSegments(sb, segs[1]) ELSE slidesFallback(sb)

----------------------------------------------------------------------------
(* Background clips *)

\* JavaScript array read: undefined outside 0..length-1
At(list, k) == IF k >= 0 /\ k < Len(list) THEN <<list[k + 1]>> ELSE <<>>

introBroll(urls) == IF urls = <<>> THEN <<>> ELSE At(urls[1], 0)

moduleClip(urls, index) == IF urls = <<>> THEN <<>> ELSE At(urls[1], index + 1)

summaryBroll(urls) == IF urls = <<>> THEN <<>> ELSE At(urls[1], Len(urls[1]) - 1)

\* the broll field of a scenePlan descriptor
descriptorBroll(urls, id, index) ==
  IF id = "intro" THEN introBroll(urls)
  ELSE IF id = "overview"
       THEN IF moduleClip(urls, 0) # <<>> THEN moduleClip(urls, 0) ELSE introBroll(urls)
  ELSE IF id = "module" THEN moduleClip(urls, index[1])
  ELSE summaryBroll(urls)

getBrollForSlideOffByOne(urls, slideType, moduleIndex) ==
  IF urls = <<>> THEN <<>>
  ELSE At(urls[1], IF slideType = "intro" THEN 0
                   ELSE IF slideType = "summary" THEN Len(urls[1]) - 1
                   ELSE moduleIndex)

getBrollForSlide(urls, slideType, moduleIndex) ==
  IF urls = <<>> THEN <<>>
  ELSE At(urls[1], IF slideType = "intro" THEN 0
                   ELSE IF slideType = "summary" THEN Len(urls[1]) - 1
                   ELSE 1 + moduleIndex)

\* the clip a scene is rendered with
sceneBroll(b, urls, sc) ==
  IF b = "scenePlan" THEN descriptorBroll(urls, sc.kind, sc.moduleIdx)
  ELSE IF sc.kind \in {"intro", "overview"} THEN getBrollForSlide(urls, "intro", 0)
  ELSE IF sc.kind = "module" THEN getBrollForSlide(urls, "module", sc.moduleIdx[1])
  ELSE getBrollForSlide(urls, "summary", 0)

renderedScenes(b, sb, segs, urls) ==
  LET sc == GraphycsComposition(b, sb, segs)
  IN  [k \in 1..Len(sc) |->
         [kind |-> sc[k].kind, startFrame |-> sc[k].startFrame,
          durationFrames |-> sc[k].durationFrames, moduleIdx |-> sc[k].moduleIdx,
          seg |-> sc[k].seg, broll |-> sceneBroll(b, urls, sc[k])]]

(* handleGenerateBroll: one clip per concept, in concept order *)

Concept(slide, n) == [slide |-> slide, n |-> n]

allConcepts(sb, concepts) ==
  <<Concept("intro", 0)>>
  \o (IF concepts # <<>>
      THEN [j \in 1..concepts[1] |-> Concept("concept", j - 1)]
      ELSE [j \in 1..sb.modules |-> Concept("module", j - 1)])
  \o <<Concept("summary", 0)>>

----------------------------------------------------------------------------
(* Inputs *)

Builds == {"scenePlan", "slides"}

Storyboards == [overview : 0..MaxOverview, modules : 0..MaxModules]

\* per-sentence audio lengths reported by the metadata parser (0 when missing)
GenDurs == {0, 12 * TicksPerFrame + TicksPerFrame \div 2}

GenInputs == UNION {[1..n -> GenDurs] : n \in 0..MaxSegs}

\* segment lists posted to the render route, in any order
FreeStarts == {0, 15 * TicksPerFrame + 1, 60 * TicksPerFrame}

FreeDurs == {1, 12 * TicksPerFrame + TicksPerFrame \div 2, 30 * TicksPerFrame}

FreeSegments == [start : FreeStarts, duration : FreeDurs]

FreeLists == UNION {[1..n -> FreeSegments] : n \in 1..MaxFree}

\* length of a single-pass narration track, as measured by the audio element
AudioLens == {200 * TicksPerFrame + 1}

\* clip lists handed to the composition
ClipNames == <<"A", "B", "C", "D", "E", "F", "G">>

ClipLists == {SubSeq(ClipNames, 1, n) : n \in 0..MaxClips}

\* segment lists of every length, for the positional mapping
PositionalLists ==
  {generateSegments([i \in 1..n |-> 12 * TicksPerFrame]).segments : n \in 0..MaxSegs}

\* what the metadata parser reports for a sentence: no duration, or a duration
MetaDurs == {<<>>, <<0>>, <<12 * TicksPerFrame + TicksPerFrame \div 2>>,
             <<25 * TicksPerFrame + 1>>}

GenIdle == [pc |-> "idle", sentences |-> 0, i |-> 0, segments |-> <<>>,
            cumulativeTime |-> 0, totalDuration |-> <<>>]

\* generateBrollClips before the call: no task, no status check, no clip
VideoIdle == [pc |-> "idle", concepts |-> 0, i |-> 0, tasks |-> 0, attempts |-> 0,
              checks |-> 0, last |-> "none", results |-> <<>>, pushed |-> 0,
              thrown |-> "none", returned |-> <<>>]

\* structure.generate before the call
StructureIdle == [pc |-> "idle", failure |-> "none", jsonContent |-> <<>>,
                  parsed |-> <<>>, result |-> <<>>]

\* the demo page after mounting: no storyboard, nothing generated
UiIdle == [story |-> 0, issued |-> 0, generatePending |-> FALSE,
           voicePending |-> <<>>, brollPending |-> <<>>,
           useSegmented |-> FALSE, useBroll |-> FALSE,
           voiceError |-> FALSE, brollError |-> FALSE,
           audioUrl |-> <<>>, segmentsOf |-> 0, clipsOf |-> 0,
           shown |-> "none", sent |-> <<>>]

----------------------------------------------------------------------------
(* State machine *)

Init ==
  /\ build \in Builds
  /\ storyboard \in Storyboards
  /\ \/ segments = <<>> /\ audioSeconds = <<>>
     \/ segments = <<>> /\ \E a \in AudioLens : audioSeconds = <<a>>
     \/ \E durs \in GenInputs :
          /\ segments = <<generateSegments(durs).segments>>
          /\ audioSeconds = <<generateSegments(durs).totalDuration>>
     \/ \E list \in FreeLists : segments = <<list>> /\ audioSeconds = <<>>
  /\ plan = <<>>
  /\ total = <<>>
  /\ preview = <<>>
  /\ brollUrls = <<>>
  /\ brollClips = <<>>
  /\ moduleConcepts = <<conceptCount>>
  /\ gen = GenIdle
  /\ video = VideoIdle
  /\ structure = StructureIdle
  /\ ui = UiIdle

\* the composition is rendered (by the Player or by renderMedia)
RenderComposition ==
  /\ plan' = <<renderedScenes(build, storyboard, segments, brollUrls)>>
  /\ UNCHANGED <<build, storyboard, segments, audioSeconds, total, preview,
                 brollUrls, brollClips, moduleConcepts, gen, video, structure, ui>>

\* POST /api/render: selectComposition runs calculateMetadata on the input props
SelectComposition ==
  /\ total' = <<calculateMetadata(storyboard, segments)>>
  /\ UNCHANGED <<build, storyboard, segments, audioSeconds, plan, preview,
                 brollUrls, brollClips, moduleConcepts, gen, video, structure, ui>>

\* the demo page computes the Player's durationInFrames
PreviewDuration ==
  /\ preview' = <<durationInFrames(storyboard, audioSeconds)>>
  /\ UNCHANGED <<build, storyboard, segments, audioSeconds, plan, total,
                 brollUrls, brollClips, moduleConcepts, gen, video, structure, ui>>

Next == RenderComposition \/ SelectComposition \/ PreviewDuration

Spec == Init /\ [][Next]_vars

(* The composition with background clips, and the clip request of the page *)

InitBroll ==
  /\ build \in Builds
  /\ storyboard \in Storyboards
  /\ segments \in {<<>>} \cup {<<l>> : l \in PositionalLists}
  /\ audioSeconds = <<>>
  /\ plan = <<>>
  /\ total = <<>>
  /\ preview = <<>>
  /\ brollUrls \in {<<>>} \cup {<<l>> : l \in ClipLists}
  /\ brollClips = <<>>
  /\ moduleConcepts \in {<<>>, <<conceptCount>>}
  /\ gen = GenIdle
  /\ video = VideoIdle
  /\ structure = StructureIdle
  /\ ui = UiIdle

\* handleGenerateBroll with a generateBrollClips call that succeeds for every
\* concept (ok) or throws (~ok)
HandleGenerateBroll ==
  \E ok \in BOOLEAN :
    LET concepts == allConcepts(storyboard, moduleConcepts)
    IN  /\ brollClips' = IF ok /\ Len(concepts) <= maxConcepts
                         THEN <<concepts>> ELSE brollClips
        /\ UNCHANGED <<build, storyboard, segments, audioSeconds, plan, total,
                       preview, brollUrls, moduleConcepts, gen, video, structure, ui>>

NextBroll == RenderComposition \/ HandleGenerateBroll

SpecBroll == InitBroll /\ [][NextBroll]_vars

(* generateSegments, one sentence per step *)

InitSegments ==
  /\ build = "slides"
  /\ storyboard = [overview |-> 0, modules |-> 0]
  /\ segments = <<>>
  /\ audioSeconds = <<>>
  /\ plan = <<>>
  /\ total = <<>>
  /\ preview = <<>>
  /\ brollUrls = <<>>
  /\ brollClips = <<>>
  /\ moduleConcepts = <<>>
  /\ gen = GenIdle
  /\ video = VideoIdle
  /\ structure = StructureIdle
  /\ ui = UiIdle

genUnchanged ==
  UNCHANGED <<build, storyboard, segments, audioSeconds, plan, total, preview,
              brollUrls, brollClips, moduleConcepts, video, structure, ui>>

\* the mutation starts: the text is split into n sentences
StartSegments ==
  /\ gen.pc = "idle"
  /\ \E n \in 0..MaxSentences :
       gen' = [GenIdle EXCEPT !.pc = "loop", !.sentences = n]
  /\ genUnchanged

\* one loop iteration: TTS succeeded and the audio metadata was parsed
ProcessSentence ==
  /\ gen.pc = "loop" /\ gen.i < gen.sentences
  /\ \E meta \in MetaDurs :
       LET duration == IF meta = <<>> \/ meta = <<0>> THEN 0 ELSE meta[1]
       IN  gen' = [gen EXCEPT
                     !.i = gen.i + 1,
                     !.segments = Append(gen.segments,
                        [start |-> gen.cumulativeTime, duration |-> duration]),
                     !.cumulativeTime = gen.cumulativeTime + duration + padding]
  /\ genUnchanged

\* one loop iteration: the TTS request failed and the mutation throws
FailSentence ==
  /\ gen.pc = "loop" /\ gen.i < gen.sentences
  /\ gen' = [gen EXCEPT !.pc = "failed"]
  /\ genUnchanged

\* after the loop: the mutation returns { segments, totalDuration }
ReturnSegments ==
  /\ gen.pc = "loop" /\ gen.i = gen.sentences
  /\ gen' = [gen EXCEPT !.pc = "done",
                        !.totalDuration = <<gen.cumulativeTime - padding>>]
  /\ genUnchanged

NextSegments == StartSegments \/ ProcessSentence \/ FailSentence \/ ReturnSegments

SpecSegments == InitSegments /\ [][NextSegments]_vars

(* generateBrollClips: one Runway task per concept, polled until it ends *)

InitVideo ==
  /\ build = "slides"
  /\ storyboard = [overview |-> 0, modules |-> 0]
  /\ segments = <<>>
  /\ audioSeconds = <<>>
  /\ plan = <<>>
  /\ total = <<>>
  /\ preview = <<>>
  /\ brollUrls = <<>>
  /\ brollClips = <<>>
  /\ moduleConcepts = <<>>
  /\ gen = GenIdle
  /\ video = VideoIdle
  /\ structure = StructureIdle
  /\ ui = UiIdle

videoUnchanged ==
  UNCHANGED <<build, storyboard, segments, audioSeconds, plan, total, preview,
              brollUrls, brollClips, moduleConcepts, gen, structure, ui>>

\* what one GET /v1/tasks/{id} can answer
StatusAnswers == {"notOk", "SUCCEEDED", "SUCCEEDED without output", "FAILED", "RUNNING"}

pollAgainInclusive(attempts) == attempts <= maxAttempts

\* while (attempts < maxAttempts)
pollAgain(attempts) == attempts < maxAttempts

catchClipSwallow(v, reason) ==
  [v EXCEPT !.pc = "create", !.i = v.i + 1, !.thrown = reason]

\* catch (error) { console.error(...); throw error; }
catchClip(v, reason) == [v EXCEPT !.pc = "rejected", !.thrown = reason]

\* if (attempts >= maxAttempts) throw ...timed out; otherwise the next concept
afterLoop(v) ==
  IF v.attempts >= maxAttempts THEN catchClip(v, "timeout")
  ELSE [v EXCEPT !.pc = "create", !.i = v.i + 1]

\* the mutation is called with n concepts; it throws when the API key is missing
StartBroll ==
  /\ video.pc = "idle"
  /\ \E n \in 1..Min(MaxTasks, maxConcepts), apiKey \in BOOLEAN :
       video' = IF apiKey
                THEN [VideoIdle EXCEPT !.pc = "create", !.concepts = n]
                ELSE [VideoIdle EXCEPT !.pc = "rejected", !.concepts = n,
                                       !.thrown = "apiKey"]
  /\ videoUnchanged

\* a loop iteration starts: POST /v1/image_to_video creates the task, or fails
CreateTask ==
  /\ video.pc = "create" /\ video.i < video.concepts
  /\ \E ok \in BOOLEAN :
       LET fresh == [video EXCEPT !.attempts = 0, !.checks = 0, !.pushed = 0,
                                  !.last = "none"]
       IN  video' = IF ok
                    THEN [fresh EXCEPT !.pc = "poll", !.tasks = video.tasks + 1]
                    ELSE catchClip(fresh, "create")
  /\ videoUnchanged

\* one pass of the polling loop: wait 5 s, then one status check
PollTask ==
  /\ video.pc = "poll" /\ pollAgain(video.attempts)
  /\ \E answer \in StatusAnswers :
       LET checked == [video EXCEPT !.checks = video.checks + 1, !.last = answer]
       IN  video' =
             IF answer = "notOk" THEN catchClip(checked, "status")
             ELSE IF answer = "SUCCEEDED"
                  THEN afterLoop([checked EXCEPT
                                    !.results = Append(video.results, video.i),
                                    !.pushed = video.pushed + 1])
             ELSE IF answer = "SUCCEEDED without output"
                  THEN catchClip(checked, "noUrl")
             ELSE IF answer = "FAILED" THEN catchClip(checked, "failed")
             ELSE [checked EXCEPT !.attempts = video.attempts + 1]
  /\ videoUnchanged

\* the loop condition fails: the check after the loop decides
LeaveLoop ==
  /\ video.pc = "poll" /\ ~pollAgain(video.attempts)
  /\ video' = afterLoop(video)
  /\ videoUnchanged

\* after the last concept: return { clips: results, totalClips }
ReturnClips ==
  /\ video.pc = "create" /\ video.i >= video.concepts
  /\ video' = [video EXCEPT !.pc = "returned", !.returned = <<video.results>>]
  /\ videoUnchanged

NextVideo == StartBroll \/ CreateTask \/ PollTask \/ LeaveLoop \/ ReturnClips

SpecVideo == InitVideo /\ [][NextVideo]_vars

(* structure.generate: the storyboard call, its validation, the concept call *)

\* a storyboard by its list lengths: overview points, points of each module,
\* quiz items
Shape(o, m, q) == [overview |-> o, modules |-> m, quiz |-> q]

\* storyboardSchema.safeParse(jsonContent).success
storyboardSchema(a) ==
  /\ a.overview = 3
  /\ Len(a.modules) = 3
  /\ \A k \in 1..Len(a.modules) : a.modules[k] = 3
  /\ a.quiz = 3

\* the five generic concepts used when the concept call fails
fallbackConcepts == <<Len(<<"office", "workspace", "interface", "meeting room", "desk">>)>>

WithConcepts(a, concepts) ==
  [overview |-> a.overview, modules |-> a.modules, quiz |-> a.quiz,
   moduleConcepts |-> concepts]

getFallbackStoryboard == WithConcepts(Shape(3, <<3, 3, 3>>, 3), fallbackConcepts)

outerCatchRethrow(v, failure) == [v EXCEPT !.pc = "rejected", !.failure = failure]

\* catch (error) { console.error(...); return getFallbackStoryboard(); }
outerCatch(v, failure) ==
  [v EXCEPT !.pc = "done", !.failure = failure, !.result = <<getFallbackStoryboard>>]

\* return getFallbackStoryboard() on a missing key, empty content, unparsable
\* content or a schema failure
returnFallback(v, failure) ==
  [v EXCEPT !.pc = "done", !.failure = failure, !.result = <<getFallbackStoryboard>>]

\* JSON documents the storyboard completion can hold
Counts == 2..MaxAnswer

StoryAnswers ==
  {Shape(o, m, q) : o \in Counts, q \in Counts,
                    m \in UNION {[1..n -> Counts] : n \in Counts}}

\* what JSON.parse(conceptContent).concepts can be: undefined or n strings
ConceptAnswers == {<<>>} \cup {<<n>> : n \in 0..(conceptCount + 1)}

InitStructure ==
  /\ build = "slides"
  /\ storyboard = [overview |-> 0, modules |-> 0]
  /\ segments = <<>>
  /\ audioSeconds = <<>>
  /\ plan = <<>>
  /\ total = <<>>
  /\ preview = <<>>
  /\ brollUrls = <<>>
  /\ brollClips = <<>>
  /\ moduleConcepts = <<>>
  /\ gen = GenIdle
  /\ video = VideoIdle
  /\ structure = StructureIdle
  /\ ui = UiIdle

structureUnchanged ==
  UNCHANGED <<build, storyboard, segments, audioSeconds, plan, total, preview,
              brollUrls, brollClips, moduleConcepts, gen, video, ui>>

\* getOpenAIClient: null without OPENAI_API_KEY
StartStructure ==
  /\ structure.pc = "idle"
  /\ \E key \in BOOLEAN :
       structure' = IF key THEN [structure EXCEPT !.pc = "models"]
                    ELSE returnFallback(structure, "noKey")
  /\ structureUnchanged

\* await openai.models.list()
ModelsList ==
  /\ structure.pc = "models"
  /\ \E ok \in BOOLEAN :
       structure' = IF ok THEN [structure EXCEPT !.pc = "chat"]
                    ELSE outerCatch(structure, "apiThrows")
  /\ structureUnchanged

\* the storyboard completion throws, has no content or content that is not JSON
ChatFails ==
  /\ structure.pc = "chat"
  /\ \E outcome \in {"apiThrows", "noContent", "badJson"} :
       structure' = IF outcome = "apiThrows" THEN outerCatch(structure, outcome)
                    ELSE returnFallback(structure, outcome)
  /\ structureUnchanged

\* the storyboard completion answers a JSON document: jsonContent
ChatAnswers ==
  /\ structure.pc = "chat"
  /\ \E a \in StoryAnswers :
       structure' = [structure EXCEPT !.pc = "validate", !.jsonContent = <<a>>]
  /\ structureUnchanged

\* storyboardSchema.safeParse(jsonContent): the parsed data, or the fallback
ValidateAnswer ==
  /\ structure.pc = "validate"
  /\ structure' = IF storyboardSchema(structure.jsonContent[1])
                  THEN [structure EXCEPT !.pc = "concepts",
                                         !.parsed = structure.jsonContent]
                  ELSE returnFallback(structure, "schema")
  /\ structureUnchanged

\* the concept completion throws, is empty or does not parse: generic concepts
ConceptsFail ==
  /\ structure.pc = "concepts"
  /\ structure' = [structure EXCEPT
                     !.pc = "done", !.failure = "concepts",
                     !.result = <<WithConcepts(structure.parsed[1], fallbackConcepts)>>]
  /\ structureUnchanged

\* the concept completion parses: moduleConcepts is conceptData.concepts as is
ConceptsAnswer ==
  /\ structure.pc = "concepts"
  /\ \E c \in ConceptAnswers :
       structure' = [structure EXCEPT
                       !.pc = "done",
                       !.result = <<WithConcepts(structure.parsed[1], c)>>]
  /\ structureUnchanged

NextStructure ==
  \/ StartStructure \/ ModelsList \/ ChatFails \/ ChatAnswers \/ ValidateAnswer
  \/ ConceptsFail \/ ConceptsAnswer

SpecStructure == InitStructure /\ [][NextStructure]_vars

(* The demo page: storyboard, voice and clip requests, preview and export *)

\* reading a prop the caller may not have passed
prop(props, name) == IF name \in DOMAIN props THEN props[name] ELSE <<>>

\* inputProps of the Player
playerProps ==
  [storyboard |-> storyboard,
   audioUrl |-> IF ui.useSegmented THEN <<>> ELSE ui.audioUrl,
   brollClips |-> IF ui.useBroll THEN brollClips ELSE <<>>,
   segments |-> IF ui.useSegmented THEN segments ELSE <<>>]

\* body of POST /api/render, handed on by the route as inputProps
renderProps ==
  [storyboard |-> storyboard,
   audioUrl |-> ui.audioUrl,
   brollClips |-> IF ui.useBroll THEN brollClips ELSE <<>>,
   segments |-> IF ui.useSegmented THEN segments ELSE <<>>]

\* the narration of a storyboard, as generateSegments returns it
narration == generateSegments(<<12 * TicksPerFrame + TicksPerFrame \div 2,
                                25 * TicksPerFrame + 1>>)

\* res.clips: one { brollUrl, metadata } per concept, in concept order
clipsFor(concepts) ==
  [i \in 1..Len(concepts) |-> [brollUrl |-> concepts[i], metadata |-> i - 1]]

InitUI ==
  /\ build \in Builds
  /\ storyboard = [overview |-> 3, modules |-> 3]
  /\ segments = <<>>
  /\ audioSeconds = <<>>
  /\ plan = <<>>
  /\ total = <<>>
  /\ preview = <<>>
  /\ brollUrls = <<>>
  /\ brollClips = <<>>
  /\ moduleConcepts = <<conceptCount>>
  /\ gen = GenIdle
  /\ video = VideoIdle
  /\ structure = StructureIdle
  /\ ui = UiIdle

\* the Generate button: generate.mutate; the mutation's data may be cleared
\* while it is pending
ClickGenerate ==
  /\ ~ui.generatePending /\ ui.issued < MaxStories
  /\ \E kept \in {ui.story, 0} :
       ui' = [ui EXCEPT !.generatePending = TRUE, !.issued = ui.issued + 1,
                        !.story = kept]
  /\ UNCHANGED <<build, storyboard, segments, audioSeconds, plan, total, preview,
                 brollUrls, brollClips, moduleConcepts, gen, video, structure>>

\* structure.generate answers: generate.data is the new storyboard
GenerateDone ==
  /\ ui.generatePending
  /\ ui' = [ui EXCEPT !.generatePending = FALSE, !.story = ui.issued]
  /\ UNCHANGED <<build, storyboard, segments, audioSeconds, plan, total, preview,
                 brollUrls, brollClips, moduleConcepts, gen, video, structure>>

ToggleSegmented ==
  /\ ui' = [ui EXCEPT !.useSegmented = ~ui.useSegmented]
  /\ UNCHANGED <<build, storyboard, segments, audioSeconds, plan, total, preview,
                 brollUrls, brollClips, moduleConcepts, gen, video, structure>>

ToggleBroll ==
  /\ ui' = [ui EXCEPT !.useBroll = ~ui.useBroll]
  /\ UNCHANGED <<build, storyboard, segments, audioSeconds, plan, total, preview,
                 brollUrls, brollClips, moduleConcepts, gen, video, structure>>

\* handleGenerateVoice up to its await: the narration of the current storyboard
\* is sent to audioSegments or to tts
ClickVoice ==
  /\ ui.story # 0 /\ ui.voicePending = <<>>
  /\ ui' = [ui EXCEPT !.voiceError = FALSE,
                      !.voicePending =
                         <<[story |-> ui.story, segmented |-> ui.useSegmented]>>]
  /\ UNCHANGED <<build, storyboard, segments, audioSeconds, plan, total, preview,
                 brollUrls, brollClips, moduleConcepts, gen, video, structure>>

\* handleGenerateVoice after its await: setSegments and setAudioSeconds, or
\* setAudioUrl followed by the measurement of the track
VoiceDone ==
  /\ ui.voicePending # <<>>
  /\ IF ui.voicePending[1].segmented
     THEN /\ segments' = <<narration.segments>>
          /\ audioSeconds' = <<narration.totalDuration>>
          /\ ui' = [ui EXCEPT !.voicePending = <<>>,
                              !.segmentsOf = ui.voicePending[1].story]
     ELSE /\ segments' = segments
          /\ \E a \in AudioLens : audioSeconds' = <<a>>
          /\ ui' = [ui EXCEPT !.voicePending = <<>>,
                              !.audioUrl = <<ui.voicePending[1].story>>]
  /\ UNCHANGED <<build, storyboard, plan, total, preview,
                 brollUrls, brollClips, moduleConcepts, gen, video, structure>>

\* the voice mutation rejects: the handler ends at its await, the mutation
\* is left in its error status
VoiceFail ==
  /\ ui.voicePending # <<>>
  /\ ui' = [ui EXCEPT !.voicePending = <<>>, !.voiceError = TRUE]
  /\ UNCHANGED <<build, storyboard, segments, audioSeconds, plan, total, preview,
                 brollUrls, brollClips, moduleConcepts, gen, video, structure>>

\* handleGenerateBroll up to its await
ClickBroll ==
  /\ ui.story # 0 /\ ui.brollPending = <<>>
  /\ ui' = [ui EXCEPT !.brollPending = <<ui.story>>, !.brollError = FALSE]
  /\ UNCHANGED <<build, storyboard, segments, audioSeconds, plan, total, preview,
                 brollUrls, brollClips, moduleConcepts, gen, video, structure>>

\* handleGenerateBroll after its await: setBrollClips(res.clips)
BrollDone ==
  /\ ui.brollPending # <<>>
  /\ Len(allConcepts(storyboard, moduleConcepts)) <= maxConcepts
  /\ brollClips' = <<clipsFor(allConcepts(storyboard, moduleConcepts))>>
  /\ ui' = [ui EXCEPT !.brollPending = <<>>, !.clipsOf = ui.brollPending[1]]
  /\ UNCHANGED <<build, storyboard, segments, audioSeconds, plan, total, preview,
                 brollUrls, moduleConcepts, gen, video, structure>>

\* generateBrollClips rejects: the handler ends at its await, the mutation is
\* left in its error status
BrollFail ==
  /\ ui.brollPending # <<>>
  /\ ui' = [ui EXCEPT !.brollPending = <<>>, !.brollError = TRUE]
  /\ UNCHANGED <<build, storyboard, segments, audioSeconds, plan, total, preview,
                 brollUrls, brollClips, moduleConcepts, gen, video, structure>>

\* the Player renders GraphycsComposition with its inputProps; the composition
\* destructures storyboard, audioUrl, brollUrls and segments
PreviewPlayer ==
  /\ ui.story # 0
  /\ brollUrls' = prop(playerProps, "brollUrls")
  /\ plan' = <<renderedScenes(build, storyboard, prop(playerProps, "segments"),
                              prop(playerProps, "brollUrls"))>>
  /\ ui' = [ui EXCEPT !.shown = "preview", !.sent = playerProps.brollClips]
  /\ UNCHANGED <<build, storyboard, segments, audioSeconds, total, preview,
                 brollClips, moduleConcepts, gen, video, structure>>

\* handleRenderMP4 and the render route: selectComposition and renderMedia
\* with inputProps { storyboard, audioUrl, brollClips, segments }
ExportMP4 ==
  /\ ui.story # 0
  /\ brollUrls' = prop(renderProps, "brollUrls")
  /\ total' = <<calculateMetadata(storyboard, prop(renderProps, "segments"))>>
  /\ plan' = <<renderedScenes(build, storyboard, prop(renderProps, "segments"),
                              prop(renderProps, "brollUrls"))>>
  /\ ui' = [ui EXCEPT !.shown = "export", !.sent = renderProps.brollClips]
  /\ UNCHANGED <<build, storyboard, segments, audioSeconds, preview,
                 brollClips, moduleConcepts, gen, video, structure>>

NextUI ==
  \/ ClickGenerate \/ GenerateDone \/ ToggleSegmented \/ ToggleBroll
  \/ ClickVoice \/ VoiceDone \/ VoiceFail
  \/ ClickBroll \/ BrollDone \/ BrollFail
  \/ PreviewPlayer \/ ExportMP4

SpecUI == InitUI /\ [][NextUI]_vars

----------------------------------------------------------------------------
(* Shorthands for the properties *)

Fallback == ~hasSegments(segments)

Rendered == plan # <<>>

Resolved == total # <<>>

scenes == plan[1]


lastScene == scenes[Len(scenes)]

segmentEnds == {segments[1][k].start + segments[1][k].duration : k \in 1..Len(segments[1])}

latestEnd == CHOOSE e \in segmentEnds : \A x \in segmentEnds : x <= e

----------------------------------------------------------------------------
(* Properties *)

\* C1: for the same storyboard and segment list, the preview's durationInFrames
\* equals the total that calculateMetadata computes for the export.
C1_PreviewEqualsExport ==
  (preview # <<>> /\ total # <<>>) => preview[1] = total[1]

\* C2: in fallback mode the total of calculateMetadata equals
\* startFrame + durationFrames of the last scene the composition lays out.
C2_TotalClosesLastScene ==
  (Fallback /\ Rendered /\ Resolved) =>
     total[1] = lastScene.startFrame + lastScene.durationFrames

\* C3: in fallback mode the first scene starts at frame 0 and every next scene
\* starts exactly 12 frames before the previous scene ends.
C3_HandleOverlap ==
  (Fallback /\ Rendered) =>
     /\ scenes[1].startFrame = 0
     /\ \A k \in 1..(Len(scenes) - 1) :
          scenes[k + 1].startFrame
            = scenes[k].startFrame + scenes[k].durationFrames - 12

C3_Witness ==
  Fallback /\ Rendered /\ storyboard.modules >= 2 /\ Len(scenes) >= 4

\* C4: in fallback mode the composition lays out exactly m + 2 scenes:
\* the intro, one scene per module in module order, the summary.
C4_FallbackSceneCount ==
  (Fallback /\ Rendered) =>
     /\ Len(scenes) = storyboard.modules + 2
     /\ scenes[1].kind = "intro"
     /\ \A i \in 1..storyboard.modules :
          scenes[i + 1].kind = "module" /\ scenes[i + 1].moduleIdx = <<i - 1>>
     /\ lastScene.kind = "summary"

\* C5: in fallback mode the total duration is 108 + 123 * m + 150 frames.
C5_FallbackTotalFormula ==
  (Fallback /\ Resolved) => total[1] = 108 + 123 * storyboard.modules + 150

\* C6: in fallback mode the intro lasts 120 frames, every module 135 frames
\* and the summary 150 frames.
C6_FallbackBaseDurations ==
  (Fallback /\ Rendered) =>
     \A k \in 1..Len(scenes) :
        /\ scenes[k].kind = "intro" => scenes[k].durationFrames = 120
        /\ scenes[k].kind = "module" => scenes[k].durationFrames = 135
        /\ scenes[k].kind = "summary" => scenes[k].durationFrames = 150

\* C7: with a non-empty segment list the total is the least whole number of
\* frames that covers the latest segment end, whatever its position in the
\* list, plus 30 frames.
C7_SegmentTotal ==
  (~Fallback /\ Resolved) =>
     /\ (total[1] - 30) * TicksPerFrame >= latestEnd
     /\ (total[1] - 30 - 1) * TicksPerFrame < latestEnd

C7_Witness ==
  /\ ~Fallback /\ Resolved
  /\ Len(segments[1]) = 2
  /\ segments[1][1].start + segments[1][1].duration
       > segments[1][2].start + segments[1][2].duration
  /\ latestEnd % TicksPerFrame # 0

\* C8: in segment-driven mode the segment at position i is an overview scene
\* when i < overview.length, a module scene when
\* overview.length <= i < overview.length + modules.length, a summary scene
\* otherwise.
C8_SegmentKinds ==
  (~Fallback /\ Rendered) =>
     /\ \A i \in 0..(Len(segments[1]) - 1) :
          \E k \in 1..Len(scenes) : scenes[k].seg = <<i>>
     /\ \A k \in 1..Len(scenes) :
          scenes[k].seg # <<>> =>
            LET i == scenes[k].seg[1]
            IN  /\ i < storyboard.overview => scenes[k].kind = "overview"
                /\ (storyboard.overview <= i
                     /\ i < storyboard.overview + storyboard.modules)
                      => scenes[k].kind = "module"
                /\ i >= storyboard.overview + storyboard.modules
                      => scenes[k].kind = "summary"

C10_SyntheticIntro ==
  (~Fallback /\ Rendered) =>
     /\ scenes[1].kind = "intro"
     /\ scenes[1].seg = <<>>
     /\ scenes[1].startFrame = 0
     /\ scenes[1].durationFrames = 60


\* n is the whole number of frames nearest to t ticks, halves going up
Nearest(n, t) ==
  /\ 2 * n * TicksPerFrame - TicksPerFrame <= 2 * t
  /\ 2 * t < 2 * n * TicksPerFrame + TicksPerFrame

\* C11: in segment-driven mode the scene of each segment starts at the frame
\* nearest to start * 30 and lasts the number of frames nearest to
\* duration * 30; no handle is subtracted or added.
C11_SegmentRounding ==
  (~Fallback /\ Rendered) =>
     \A i \in 1..Len(segments[1]) :
        \E k \in 1..Len(scenes) :
           /\ scenes[k].seg = <<i - 1>>
           /\ Nearest(scenes[k].startFrame, segments[1][i].start)
           /\ Nearest(scenes[k].durationFrames, segments[1][i].duration)

C11_Witness ==
  /\ ~Fallback /\ Rendered
  /\ \E i \in 1..Len(segments[1]) :
       /\ segments[1][i].start % TicksPerFrame # 0
       /\ 2 * (segments[1][i].duration % TicksPerFrame) >= TicksPerFrame

\* C12: in segment-driven mode the plan holds exactly one scene per segment
\* plus the intro scene: 1 + segments.length scenes.
C12_SegmentSceneCount ==
  (~Fallback /\ Rendered) => Len(scenes) = 1 + Len(segments[1])

\* C13: with an empty segment list the composition lays out exactly the scenes,
\* and calculateMetadata returns exactly the total, of the same storyboard
\* with segments absent: no scene belongs to a segment and the total is the
\* fallback total.
C13_EmptyIsAbsent ==
  (segments = << <<>> >>) =>
     /\ Rendered =>
          /\ scenes = renderedScenes(build, storyboard, <<>>, brollUrls)
          /\ \A k \in 1..Len(scenes) : scenes[k].seg = <<>>
          /\ scenes[1].durationFrames = 120
     /\ Resolved =>
          /\ total[1] = calculateMetadata(storyboard, <<>>)
          /\ total[1] = 366 + 123 * storyboard.modules

C13_Witness ==
  segments = << <<>> >> /\ Rendered /\ Resolved


clips == brollUrls[1]

\* C14: for every clip list of length L >= 1 the intro scene gets the clip at
\* index 0, the summary scene the clip at index L - 1 and the scene of module
\* i the clip at index 1 + i (none when the list has no such index); with
\* clips [A,B,C,D,E] and 3 modules: intro A, module 0 B, module 2 D, summary E.
C14_PositionalClips ==
  (Rendered /\ brollUrls # <<>> /\ Len(clips) >= 1) =>
     /\ \A k \in 1..Len(scenes) :
          /\ scenes[k].kind = "intro" => scenes[k].broll = <<clips[1]>>
          /\ scenes[k].kind = "summary" => scenes[k].broll = <<clips[Len(clips)]>>
          /\ scenes[k].kind = "module" =>
               LET i == scenes[k].moduleIdx[1]
               IN  scenes[k].broll
                     = IF 1 + i < Len(clips) THEN <<clips[i + 2]>> ELSE <<>>
     /\ (clips = <<"A", "B", "C", "D", "E">> /\ storyboard.modules = 3) =>
          \A k \in 1..Len(scenes) :
             /\ scenes[k].kind = "intro" => scenes[k].broll = <<"A">>
             /\ (scenes[k].kind = "module" /\ scenes[k].moduleIdx = <<0>>)
                   => scenes[k].broll = <<"B">>
             /\ (scenes[k].kind = "module" /\ scenes[k].moduleIdx = <<2>>)
                   => scenes[k].broll = <<"D">>
             /\ scenes[k].kind = "summary" => scenes[k].broll = <<"E">>

C14_Witness ==
  /\ Rendered /\ brollUrls = << <<"A", "B", "C", "D", "E">> >>
  /\ storyboard.modules = 3 /\ build = "slides" /\ Fallback
  /\ \E k \in 1..Len(scenes) :
       scenes[k].kind = "module" /\ scenes[k].moduleIdx = <<2>>
         /\ scenes[k].broll = <<"D">>

\* index of a scene's own clip in [intro, module 0, ..., module m-1, summary]
positionalIndex(sc) ==
  IF sc.kind = "intro" THEN 0
  ELSE IF sc.kind = "module" THEN 1 + sc.moduleIdx[1]
  ELSE storyboard.modules + 1

\* C15: when the clip list is absent or shorter than modules.length + 2, every
\* intro, module or summary scene whose positional clip is missing from the
\* list is rendered with no background.
C15_MissingClipNoBackground ==
  (Rendered /\ (brollUrls = <<>> \/ Len(clips) < storyboard.modules + 2)) =>
     \A k \in 1..Len(scenes) :
        (/\ scenes[k].kind \in {"intro", "module", "summary"}
         /\ (brollUrls = <<>> \/ positionalIndex(scenes[k]) >= Len(clips)))
           => scenes[k].broll = <<>>

\* C16: the clip list the page obtains from generateBrollClips has exactly
\* modules.length + 2 entries: the intro clip, one clip per module in module
\* order, the summary clip.
C16_ClipListLength ==
  (brollClips # <<>>) =>
     /\ Len(brollClips[1]) = storyboard.modules + 2
     /\ brollClips[1][1].slide = "intro"
     /\ \A i \in 1..storyboard.modules : brollClips[1][i + 1].n = i - 1
     /\ brollClips[1][Len(brollClips[1])].slide = "summary"


\* C17: for a storyboard with no module and no segments the plan has exactly
\* 2 scenes, the intro then the summary, and the total duration is a positive
\* number of frames, the same in the preview and in the export.
C17_EmptyStoryboard ==
  (storyboard.modules = 0 /\ segments = <<>>) =>
     /\ Rendered =>
          /\ Len(scenes) = 2
          /\ scenes[1].kind = "intro"
          /\ scenes[2].kind = "summary"
     /\ Resolved => total[1] > 0
     /\ preview # <<>> => preview[1] > 0
     /\ (Resolved /\ preview # <<>>) => preview[1] = total[1]

\* the segment list handed to the composition is well formed
WellFormedSegments ==
  Fallback \/ \A i \in 1..Len(segments[1]) :
                 segments[1][i].start >= 0 /\ segments[1][i].duration > 0

\* C18: every scene has a startFrame >= 0 and a durationFrames > 0, in
\* fallback mode and for every segment list with start >= 0 and duration > 0.
C18_PositiveScenes ==
  (Rendered /\ WellFormedSegments) =>
     \A k \in 1..Len(scenes) :
        scenes[k].startFrame >= 0 /\ scenes[k].durationFrames > 0

\* C19: every segment returned by generateSegments has start >= 0 and
\* duration > 0, whatever the audio metadata reports.
C19_ReturnedSegmentsPositive ==
  (gen.pc = "done") =>
     \A i \in 1..Len(gen.segments) :
        gen.segments[i].start >= 0 /\ gen.segments[i].duration > 0

\* the scenes that are on screen at frame f
covering(f) ==
  {k \in 1..Len(scenes) :
     scenes[k].startFrame <= f /\ f < scenes[k].startFrame + scenes[k].durationFrames}

\* C20: in fallback mode every frame below the total duration lies inside at
\* least one scene and at most two, two only within the first 12 frames of
\* the later of two consecutive scenes.
C20_FallbackTiling ==
  (Fallback /\ Rendered /\ Resolved) =>
     \A f \in 0..(total[1] - 1) :
        /\ Cardinality(covering(f)) \in {1, 2}
        /\ Cardinality(covering(f)) = 2 =>
             \E k \in 1..(Len(scenes) - 1) :
                /\ covering(f) = {k, k + 1}
                /\ f < scenes[k + 1].startFrame + 12

C28_FirstFailureAborts ==
  (video.thrown \notin {"none", "apiKey"}) =>
     /\ video.pc = "rejected"
     /\ video.returned = <<>>
     /\ video.tasks = IF video.thrown = "create" THEN video.i ELSE video.i + 1

C28_Witness ==
  /\ video.thrown \in {"failed", "timeout", "noUrl"}
  /\ Len(video.results) >= 1
  /\ video.i + 1 < video.concepts

\* C23: structure.generate never rejects; when the API key is missing, an API
\* call throws, the response has no content, the content is not JSON or the
\* content fails the schema, it returns the static fallback storyboard.
C23_FallbackOnFailure ==
  /\ structure.pc # "rejected"
  /\ (structure.failure \in {"noKey", "apiThrows", "noContent", "badJson", "schema"}) =>
        /\ structure.pc = "done"
        /\ structure.result =
             << [overview |-> 3, modules |-> <<3, 3, 3>>, quiz |-> 3,
                 moduleConcepts |-> <<5>>] >>

C23_Witness ==
  /\ structure.pc = "done" /\ structure.failure = "apiThrows"
  /\ structure.result # <<>>

\* C30: every storyboard structure.generate returns has exactly 3 overview
\* points, 3 modules of 3 points each and 3 quiz items, and a moduleConcepts
\* list of exactly 5 strings.
C30_ReturnedShape ==
  (structure.pc = "done") =>
     /\ structure.result # <<>>
     /\ structure.result[1].overview = 3
     /\ structure.result[1].modules = <<3, 3, 3>>
     /\ structure.result[1].quiz = 3
     /\ structure.result[1].moduleConcepts = <<5>>

\* the segment list is one generateSegments returns for its durations
fromGenerateSegments ==
  ~Fallback /\
  segments[1] = generateSegments([i \in 1..Len(segments[1]) |->
                                    segments[1][i].duration]).segments

\* C24: for a segment list produced by generateSegments the scene of each
\* segment ends, in frames, no later than the scene of the next segment
\* starts.
C24_GeneratedNoOverlap ==
  (Rendered /\ fromGenerateSegments) =>
     \A i \in 1..(Len(segments[1]) - 1) :
        \E k \in 1..Len(scenes), l \in 1..Len(scenes) :
           /\ scenes[k].seg = <<i - 1>>
           /\ scenes[l].seg = <<i>>
           /\ scenes[k].startFrame + scenes[k].durationFrames <= scenes[l].startFrame

C24_Witness ==
  /\ Rendered /\ fromGenerateSegments
  /\ Len(segments[1]) >= 3
  /\ \E i \in 2..(Len(segments[1]) - 1) :
       /\ segments[1][i].start % TicksPerFrame # 0
       /\ 2 * (segments[1][i].duration % TicksPerFrame) >= TicksPerFrame

\* C25: in segment-driven mode, for a non-empty segment list with start >= 0
\* and duration > 0, every scene, the synthetic intro included, ends no later
\* than the total duration calculateMetadata returns.
C25_ScenesWithinTotal ==
  (Rendered /\ Resolved /\ ~Fallback /\ WellFormedSegments) =>
     \A k \in 1..Len(scenes) :
        scenes[k].startFrame + scenes[k].durationFrames <= total[1]

\* C29: the totalDuration generateSegments returns is >= 0 and, when segments
\* are returned, equals start + duration of the last of them; also for a text
\* that splits into no sentence.
C29_TotalDuration ==
  (gen.pc = "done") =>
     /\ gen.totalDuration[1] >= 0
     /\ Len(gen.segments) > 0 =>
          gen.totalDuration[1] = gen.segments[Len(gen.segments)].start
                                   + gen.segments[Len(gen.segments)].duration

\* C26: when B-roll is enabled and clips have been generated, the list the
\* composition's background lookup reads, in the preview and in the export,
\* is the list of the generated clips' URLs in generation order.
C26_ClipsReachComposition ==
  (ui.shown # "none" /\ ui.sent # <<>>) =>
     brollUrls = << [i \in 1..Len(ui.sent[1]) |-> ui.sent[1][i].brollUrl] >>

\* C27: whenever a storyboard is displayed, the segments, the audio URL and
\* the clips the page holds and hands to the preview and to the export were
\* generated from that storyboard.
C27_SameStoryboard ==
  (ui.story # 0) =>
     /\ (ui.useSegmented /\ segments # <<>>) => ui.segmentsOf = ui.story
     /\ ui.audioUrl # <<>> => ui.audioUrl[1] = ui.story
     /\ (ui.useBroll /\ brollClips # <<>>) => ui.clipsOf = ui.story

====
